---------------------------- MODULE Spec2Model ----------------------------
(***************************************************************************)
(* A model of the LSIF graph store JsonDatabase (src/unnamed/part_001) and *)
(* of the unused-definitions driver (src/src/index.ts).                    *)
(*                                                                         *)
(* A store is a record with the fields of the class.  A Map is a function  *)
(* whose DOMAIN is the set of keys present; an array is a sequence; a      *)
(* vertex or edge of the dump is a record with the fields of its JSON      *)
(* line.  load() is modelled one line per step; the queries are operators  *)
(* computed as the code computes them, and applied by the query actions.   *)
(***************************************************************************)
EXTENDS Integers, Sequences, FiniteSets, TLC

VARIABLES
    db,      \* db[s]: the JsonDatabase object s
    file,    \* file[s]: the lines load() is to read into store s, in order
    pc,      \* pc[s]: the number of lines of file[s] that load() has consumed
    status,  \* status[s]: "ok", or "failed" once load() has thrown
    result   \* result[s]: the last query made on store s and what it returned

vars == <<db, file, pc, status, result>>

----------------------------------------------------------------------------
(* Bounds of the model.                                                    *)

\* Positions have lines 0..MaxLine and characters 0..MaxChar.
MaxLine == 1
MaxChar == 1

Positions == [line : 0..MaxLine, character : 0..MaxChar]

----------------------------------------------------------------------------
(* JavaScript values.                                                      *)

\* The value of a variable or optional field that was never set.
Undefined == "<undefined>"

\* JavaScript truthiness of a string-or-undefined value.
Truthy(x) == x # Undefined /\ x # ""

\* Reading a property of an object: undefined when the object has none.
Field(object, name) ==
    IF name \in DOMAIN object THEN object[name] ELSE Undefined

\* Map helpers: Map.has, Map.set, and "get the array, create it if missing,
\* push".
Has(m, k) == k \in DOMAIN m
Put(m, k, v) == [x \in (DOMAIN m) \cup {k} |-> IF x = k THEN v ELSE m[x]]
Push(m, k, v) == Put(m, k, IF Has(m, k) THEN Append(m[k], v) ELSE <<v>>)
EmptyMap == << >>

\* crypto.createHash('md5').update(x).digest('base64'): modelled as an
\* injective tag of its input (hash collisions are outside the model).
Md5(x) == <<"md5", x>>

\* URI.parse(uri).toString(true): percent-decodes the path and leaves a
\* decoded URI as it is.
Normalize(uri) ==
    CASE uri = "file:///a%20b.ts" -> "file:///a b.ts"
      [] uri = "file:///c%2Ets" -> "file:///c.ts"
      [] OTHER -> uri

toDatabase(uri) == Normalize(uri)
fromDatabase(uri) == Normalize(uri)

\* Identifiers of monikers are sequences of tokens; String.endsWith('.') and
\* String.includes(marker) read the tokens.
EndsWithDot(identifier) ==
    Len(identifier) > 0 /\ identifier[Len(identifier)] = "."
Includes(identifier, marker) ==
    \E i \in 1..Len(identifier) : identifier[i] = marker

----------------------------------------------------------------------------
(* The store.                                                              *)

\* The field initialisers of class JsonDatabase.
JsonDatabase ==
    [ workspaceRoot |-> Undefined,
      vertices |-> [all |-> EmptyMap, projects |-> EmptyMap,
                    documents |-> EmptyMap, ranges |-> EmptyMap],
      out |-> [contains |-> EmptyMap, item |-> EmptyMap, next |-> EmptyMap,
               moniker |-> EmptyMap, documentSymbol |-> EmptyMap,
               foldingRange |-> EmptyMap, documentLink |-> EmptyMap,
               diagnostic |-> EmptyMap, declaration |-> EmptyMap,
               definition |-> EmptyMap, typeDefinition |-> EmptyMap,
               hover |-> EmptyMap, references |-> EmptyMap,
               implementation |-> EmptyMap],
      in |-> [contains |-> EmptyMap, moniker |-> EmptyMap],
      indices |-> [monikers |-> EmptyMap, contents |-> EmptyMap,
                   documents |-> EmptyMap] ]

\* What a step of ingestion yields: the store, and whether it threw.
Ok(d) == [d |-> d, threw |-> FALSE]
Throw(d) == [d |-> d, threw |-> TRUE]

----------------------------------------------------------------------------
(* Ingestion of vertices.                                                  *)

\* A variant of processMetaData without the check: the last root wins.
processMetaDataLastWins(d, element) ==
    IF "projectRoot" \in DOMAIN element /\ Truthy(element.projectRoot)
    THEN Ok([d EXCEPT !.workspaceRoot = element.projectRoot])
    ELSE Ok(d)

processMetaData(d, element) ==
    LET declared == "projectRoot" \in DOMAIN element
    IN  IF Truthy(d.workspaceRoot) /\ declared
           /\ element.projectRoot # d.workspaceRoot
        THEN Throw(d)
        ELSE IF declared /\ Truthy(element.projectRoot)
             THEN Ok([d EXCEPT !.workspaceRoot = element.projectRoot])
             ELSE Ok(d)

\* A variant of doProcessDocument that drops a document whose content differs
\* from that of the first document of its URI.
doProcessDocumentSameContent(d, element) ==
    LET document == [element EXCEPT !.uri = Normalize(@)]
        contents == IF "contents" \in DOMAIN element
                    THEN element.contents ELSE "No content provided."
        hash == Md5(contents)
        value == IF Has(d.indices.documents, document.uri)
                 THEN d.indices.documents[document.uri]
                 ELSE [hash |-> hash, documents |-> << >>]
    IN  [d EXCEPT
            !.vertices.all = Put(@, document.id, document),
            !.vertices.documents = Put(@, document.id, document),
            !.indices.contents = Put(@, hash, contents),
            !.indices.documents =
                Put(@, document.uri,
                    IF hash # value.hash THEN value
                    ELSE [value EXCEPT !.documents = Append(@, document)])]

doProcessDocument(d, element) ==
    LET document == [element EXCEPT !.uri = Normalize(@)]
        contents == IF "contents" \in DOMAIN element
                    THEN element.contents ELSE "No content provided."
        hash == Md5(contents)
        value == IF Has(d.indices.documents, document.uri)
                 THEN d.indices.documents[document.uri]
                 ELSE [hash |-> hash, documents |-> << >>]
    IN  [d EXCEPT
            \* document.uri is assigned on the object vertices.all holds
            !.vertices.all = Put(@, document.id, document),
            !.vertices.documents = Put(@, document.id, document),
            !.indices.contents = Put(@, hash, contents),
            !.indices.documents =
                Put(@, document.uri,
                    [value EXCEPT !.documents = Append(@, document)])]

\* The moniker case of processVertex: the key is added to the object that
\* vertices.all holds.
processMoniker(d, element) ==
    IF element.kind # "local"
    THEN LET key == Md5([s |-> element.scheme, i |-> element.identifier])
             moniker == [id |-> element.id, type |-> element.type,
                         label |-> element.label, scheme |-> element.scheme,
                         identifier |-> element.identifier,
                         kind |-> element.kind, key |-> key]
         IN  [d EXCEPT !.vertices.all = Put(@, element.id, moniker),
                       !.indices.monikers = Push(@, key, moniker)]
    ELSE d

\* The labels processVertex accepts and only stores in vertices.all.
SkippedVertexLabels ==
    {"packageInformation", "definitionResult", "implementationResult",
     "resultSet", "referenceResult", "hoverResult"}

processVertex(d, element) ==
    LET d1 == [d EXCEPT !.vertices.all = Put(@, element.id, element)]
    IN  CASE element.label = "metaData" -> processMetaData(d1, element)
          [] element.label = "document" -> Ok(doProcessDocument(d1, element))
          [] element.label = "range" ->
                Ok([d1 EXCEPT !.vertices.ranges = Put(@, element.id, element)])
          [] element.label = "moniker" -> Ok(processMoniker(d1, element))
          [] element.label \in SkippedVertexLabels -> Ok(d1)
          [] OTHER -> Throw(d1)

----------------------------------------------------------------------------
(* Ingestion of edges.                                                     *)

\* An optional value: << >> for undefined, <<x>> for x.
None == << >>
Some(x) == <<x>>

\* The item case of doProcessEdge: the target as out.item stores it, or
\* undefined when the property is none of the five the switch knows.
itemTarget(to, property) ==
    CASE property = Undefined -> Some(to)
      [] property \in {"references", "declarations", "definitions"} ->
            Some([type |-> property, range |-> to])
      [] property \in {"referenceResults", "referenceLinks"} ->
            Some([type |-> property, result |-> to])
      [] OTHER -> None

\* The single-valued relation maps of doProcessEdge's switch: edge label to
\* field of out.
RelationMap ==
    "textDocument/documentSymbol" :> "documentSymbol"
    @@ "textDocument/foldingRange" :> "foldingRange"
    @@ "textDocument/documentLink" :> "documentLink"
    @@ "textDocument/diagnostic" :> "diagnostic"
    @@ "textDocument/definition" :> "definition"
    @@ "textDocument/typeDefinition" :> "typeDefinition"
    @@ "textDocument/hover" :> "hover"
    @@ "textDocument/references" :> "references"

\* out with field f set to m.
SetOut(out, f, m) == [g \in DOMAIN out |-> IF g = f THEN m ELSE out[g]]

doProcessEdge(d, label, outV, inV, property) ==
    IF ~Has(d.vertices.all, outV) \/ ~Has(d.vertices.all, inV)
    THEN Throw(d)   \* invariant(from !== undefined), invariant(to !== undefined)
    ELSE
    LET from == d.vertices.all[outV]
        to == d.vertices.all[inV]
    IN  CASE label = "contains" ->
                Ok([d EXCEPT !.out.contains = Push(@, from.id, to),
                             !.in.contains = Put(@, to.id, from)])
          [] label = "item" ->
                LET target == itemTarget(to, property)
                IN  IF target # None
                    THEN Ok([d EXCEPT !.out.item = Push(@, from.id, target[1])])
                    ELSE Ok(d)
          [] label = "next" ->
                Ok([d EXCEPT !.out.next = Put(@, from.id, to)])
          [] label = "moniker" ->
                Ok([d EXCEPT !.out.moniker = Put(@, from.id, to),
                             !.in.moniker = Push(@, to.id, from)])
          [] label \in DOMAIN RelationMap ->
                Ok([d EXCEPT !.out =
                        SetOut(@, RelationMap[label],
                               Put(@[RelationMap[label]], from.id, to))])
          [] OTHER -> Ok(d)   \* the switch has no default case

\* The loop of processEdge over the inVs of a 1:N edge.
RECURSIVE processInVs(_, _, _, _)
processInVs(d, edge, inVs, property) ==
    IF inVs = << >>
    THEN Ok(d)
    ELSE LET r == doProcessEdge(d, edge.label, edge.outV, Head(inVs), property)
         IN  IF r.threw THEN r
             ELSE processInVs(r.d, edge, Tail(inVs), property)

processEdge(d, edge) ==
    LET property == IF edge.label = "item" /\ "property" \in DOMAIN edge
                    THEN edge.property ELSE Undefined
    IN  IF "inV" \in DOMAIN edge                                 \* Edge.is11
        THEN doProcessEdge(d, edge.label, edge.outV, edge.inV, property)
        ELSE IF "inVs" \in DOMAIN edge                           \* Edge.is1N
             THEN processInVs(d, edge, edge.inVs, property)
             ELSE Ok(d)

\* The body of load()'s loop for one line.
processLine(d, element) ==
    CASE element.type = "vertex" -> processVertex(d, element)
      [] element.type = "edge" -> processEdge(d, element)
      [] OTHER -> Throw(d)

----------------------------------------------------------------------------
(* Geometry and the position resolver.                                     *)

containsPosition(range, position) ==
    IF position.line < range.start.line \/ position.line > range.end.line
    THEN FALSE
    ELSE IF position.line = range.start.line
            /\ position.character < range.start.character
    THEN FALSE
    ELSE IF position.line = range.end.line
            /\ position.character > range.end.character
    THEN FALSE
    ELSE TRUE

containsRange(range, otherRange) ==
    IF otherRange.start.line < range.start.line
       \/ otherRange.end.line < range.start.line
    THEN FALSE
    ELSE IF otherRange.start.line > range.end.line
            \/ otherRange.end.line > range.end.line
    THEN FALSE
    ELSE IF otherRange.start.line = range.start.line
            /\ otherRange.start.character < range.start.character
    THEN FALSE
    ELSE IF otherRange.end.line = range.end.line
            /\ otherRange.end.character > range.end.character
    THEN FALSE
    ELSE TRUE

\* A variant of replacesCandidate with the arguments of containsRange swapped.
replacesCandidateSwapped(candidate, item) == containsRange(item, candidate)

\* The replacement test of findRangesFromPosition's inner loop: whether item
\* takes the place of the current candidate.
replacesCandidate(candidate, item) == containsRange(candidate, item)

\* The inner loop of findRangesFromPosition over one document's contains
\* list: the candidate (optional) after the items from index i on.
RECURSIVE scanContains(_, _, _, _)
scanContains(contains, position, i, candidate) ==
    IF i > Len(contains)
    THEN candidate
    ELSE LET item == contains[i]
         IN  IF item.label # "range"
             THEN scanContains(contains, position, i + 1, candidate)
             ELSE IF containsPosition(item, position)
                     /\ (candidate = None \/ replacesCandidate(candidate[1], item))
             THEN scanContains(contains, position, i + 1, Some(item))
             ELSE scanContains(contains, position, i + 1, candidate)

\* A variant of documentHasNoRanges that also gives up at a document whose
\* contains entry holds no range.
documentHoldsNoRange(d, document) ==
    \/ ~Has(d.out.contains, document.id)
    \/ \A i \in 1..Len(d.out.contains[document.id]) :
          d.out.contains[document.id][i].label # "range"

\* Whether findRangesFromPosition gives up on the whole URI at this
\* document: the document has no contains entry or an empty one.
documentHasNoRanges(d, document) ==
    ~Has(d.out.contains, document.id) \/ Len(d.out.contains[document.id]) = 0

\* The outer loop of findRangesFromPosition: undefined (None) on the early
\* return, else the array of candidates collected so far.
RECURSIVE scanDocuments(_, _, _, _, _)
scanDocuments(d, documents, position, i, acc) ==
    IF i > Len(documents)
    THEN Some(acc)
    ELSE IF documentHasNoRanges(d, documents[i])
    THEN None
    ELSE LET candidate ==
                scanContains(d.out.contains[documents[i].id], position, 1, None)
         IN  scanDocuments(d, documents, position, i + 1, acc \o candidate)

\* The Range[] returned, or None for undefined.
findRangesFromPosition(d, uri, position) ==
    IF ~Has(d.indices.documents, uri)
    THEN None
    ELSE LET r == scanDocuments(d, d.indices.documents[uri].documents,
                                position, 1, << >>)
         IN  IF r = None THEN None
             ELSE IF Len(r[1]) > 0 THEN r ELSE None

----------------------------------------------------------------------------
(* The result resolver.                                                    *)

\* getResultPath's do-while loop from vertex currentId with the trail so far.
\* loops is TRUE when the next edges lead back to a vertex of the trail, where
\* the code never returns.
RECURSIVE walkResultPath(_, _, _, _)
walkResultPath(d, edges, currentId, path) ==
    LET moniker == IF Has(d.out.moniker, currentId)
                   THEN Some(d.out.moniker[currentId]) ELSE None
    IN  IF Has(edges, currentId)
        THEN [path |-> path, loops |-> FALSE,
              result |-> Some([value |-> edges[currentId], moniker |-> moniker])]
        ELSE LET path1 == Append(path, [vertex |-> currentId, moniker |-> moniker])
             IN  IF ~Has(d.out.next, currentId)
                 THEN [path |-> path1, loops |-> FALSE, result |-> None]
                 ELSE IF \E i \in 1..Len(path1) :
                            path1[i].vertex = d.out.next[currentId].id
                 THEN [path |-> path1, loops |-> TRUE, result |-> None]
                 ELSE walkResultPath(d, edges, d.out.next[currentId].id, path1)

getResultPath(d, start, edges) == walkResultPath(d, edges, start, << >>)

\* A variant of scanTrail that scans the trail from its head.
scanTrailFromHead(path, i) ==
    LET S == {j \in 1..Len(path) : path[j].moniker # None}
    IN  IF S = {} THEN None
        ELSE path[CHOOSE j \in S : \A k \in S : j <= k].moniker

\* The backward scan of getMostSpecificMoniker from trail index i.
RECURSIVE scanTrail(_, _)
scanTrail(path, i) ==
    IF i < 1 THEN None
    ELSE IF path[i].moniker # None THEN path[i].moniker
    ELSE scanTrail(path, i - 1)

getMostSpecificMoniker(resultPath) ==
    IF resultPath.result # None /\ resultPath.result[1].moniker # None
    THEN resultPath.result[1].moniker
    ELSE scanTrail(resultPath.path, Len(resultPath.path))

findVerticesForMoniker(d, moniker) ==
    IF Has(d.in.moniker, moniker.id) THEN Some(d.in.moniker[moniker.id]) ELSE None

\* item(value): the item targets of a result vertex, or undefined.
item(d, value) ==
    IF value.label \in {"declarationResult", "definitionResult", "referenceResult"}
       /\ Has(d.out.item, value.id)
    THEN Some(d.out.item[value.id])
    ELSE None

asRange(value) ==
    [start |-> [line |-> value.start.line, character |-> value.start.character],
     end |-> [line |-> value.end.line, character |-> value.end.character]]

\* Locations.makeKey
makeKey(location) ==
    Md5([d |-> location.uri,
         sl |-> location.range.start.line, sc |-> location.range.start.character,
         el |-> location.range.end.line, ec |-> location.range.end.character])

\* The accumulators of one top-level query: the result array, the two dedup
\* sets, the monikers array of the range being resolved, and the exception or
\* divergence that ended the query, if any.
NewQuery ==
    [locations |-> << >>, dedupLocations |-> {}, dedupMonikers |-> {},
     monikers |-> << >>, fault |-> "none"]

\* Whether addLocation can build a Location from value: value is a range
\* vertex that a document contains.  Otherwise the code dereferences
\* undefined.
Locatable(d, value) ==
    /\ "label" \in DOMAIN value
    /\ value.label = "range"
    /\ Has(d.in.contains, value.id)
    /\ d.in.contains[value.id].label = "document"

\* A variant of isNewLocation that forgets the dedup set.
isNewLocationAlways(dedup, key) == TRUE

\* The test of addLocation that lets a location into the result.
isNewLocation(dedup, key) == key \notin dedup

addLocation(acc, d, value) ==
    IF acc.fault # "none" THEN acc
    ELSE IF ~Locatable(d, value) THEN [acc EXCEPT !.fault = "TypeError"]
    ELSE LET document == d.in.contains[value.id]
             location == [uri |-> fromDatabase(document.uri),
                          range |-> asRange(value)]
             key == makeKey(location)
         IN  IF isNewLocation(acc.dedupLocations, key)
             THEN [acc EXCEPT !.dedupLocations = @ \cup {key},
                              !.locations = Append(@, location)]
             ELSE acc

----------------------------------------------------------------------------
(* declarations and definitions.                                           *)

\* A loop of addLocation over the elements from index i on.
RECURSIVE addLocations(_, _, _, _)
addLocations(acc, d, elements, i) ==
    IF i > Len(elements) \/ acc.fault # "none" THEN acc
    ELSE addLocations(addLocation(acc, d, elements[i]), d, elements, i + 1)

\* The closure resolveTargets of findTargets.
resolveTargets(acc, d, targetResult) ==
    LET ranges == item(d, targetResult)
    IN  IF ranges = None THEN acc ELSE addLocations(acc, d, ranges[1], 1)

\* findTargets' loop over the vertices attached to one matching moniker.
RECURSIVE targetsOfVertices(_, _, _, _, _)
targetsOfVertices(acc, d, edges, vertices, i) ==
    IF i > Len(vertices) \/ acc.fault # "none" THEN acc
    ELSE LET resultPath == getResultPath(d, vertices[i].id, edges)
         IN  IF resultPath.loops THEN [acc EXCEPT !.fault = "hang"]
             ELSE IF resultPath.result = None
             THEN targetsOfVertices(acc, d, edges, vertices, i + 1)
             ELSE targetsOfVertices(
                      resolveTargets(acc, d, resultPath.result[1].value),
                      d, edges, vertices, i + 1)

\* findTargets' loop over the monikers that share a key.
RECURSIVE targetsOfMatching(_, _, _, _, _)
targetsOfMatching(acc, d, edges, matchingMonikers, i) ==
    IF i > Len(matchingMonikers) \/ acc.fault # "none" THEN acc
    ELSE LET vertices == findVerticesForMoniker(d, matchingMonikers[i])
         IN  targetsOfMatching(
                 IF vertices = None THEN acc
                 ELSE targetsOfVertices(acc, d, edges, vertices[1], 1),
                 d, edges, matchingMonikers, i + 1)

\* The key of a moniker object; a moniker that was never indexed has none.
keyOf(moniker) ==
    IF "key" \in DOMAIN moniker THEN moniker.key ELSE <<Undefined>>

\* The closure _findTargets of findTargets, for one range.
findTargetsOfRange(acc, d, edges, range) ==
    IF acc.fault # "none" THEN acc
    ELSE
    LET resultPath == getResultPath(d, range.id, edges)
    IN  IF resultPath.loops THEN [acc EXCEPT !.fault = "hang"]
        ELSE IF resultPath.result = None THEN acc
        ELSE
        LET monikers == getMostSpecificMoniker(resultPath)
            acc1 == resolveTargets(acc, d, resultPath.result[1].value)
        IN  IF monikers = None \/ acc1.fault # "none"
               \/ keyOf(monikers[1]) \in acc1.dedupMonikers
            THEN acc1
            ELSE LET key == keyOf(monikers[1])
                     acc2 == [acc1 EXCEPT !.dedupMonikers = @ \cup {key}]
                 IN  IF Has(d.indices.monikers, key)
                     THEN targetsOfMatching(acc2, d, edges,
                                            d.indices.monikers[key], 1)
                     ELSE acc2

RECURSIVE findTargetsOfRanges(_, _, _, _, _)
findTargetsOfRanges(acc, d, edges, ranges, i) ==
    IF i > Len(ranges) THEN acc
    ELSE findTargetsOfRanges(findTargetsOfRange(acc, d, edges, ranges[i]),
                             d, edges, ranges, i + 1)

\* What a query returns.
ReturnUndefined == [kind |-> "undefined"]
ReturnLocations(locations) == [kind |-> "locations", locations |-> locations]
Fault(fault) == [kind |-> fault]
Returned(acc) ==
    IF acc.fault # "none" THEN Fault(acc.fault)
    ELSE ReturnLocations(acc.locations)

findTargets(d, uri, position, edges) ==
    LET ranges == findRangesFromPosition(d, toDatabase(uri), position)
    IN  IF ranges = None THEN ReturnUndefined
        ELSE Returned(findTargetsOfRanges(NewQuery, d, edges, ranges[1], 1))

declarations(d, uri, position) == findTargets(d, uri, position, d.out.declaration)

definitions(d, uri, position) == findTargets(d, uri, position, d.out.definition)

----------------------------------------------------------------------------
(* references.                                                             *)

\* A variant of contributesRange that ignores the context.
contributesRangeAlways(target, context) ==
    target.type \in {"declarations", "definitions", "references"}

\* The first three branches of resolveReferenceResult's loop: whether a
\* tagged item adds the location of its range.
contributesRange(target, context) ==
    \/ target.type = "declarations" /\ context.includeDeclaration
    \/ target.type = "definitions" /\ context.includeDeclaration
    \/ target.type = "references"

\* resolveReferenceResult and its loop over the targets.  stack holds the
\* reference results being resolved: re-entering one recurses without end.
RECURSIVE resolveReferenceResult(_, _, _, _, _)
RECURSIVE resolveReferenceTargets(_, _, _, _, _, _)
resolveReferenceTargets(acc, d, targets, i, context, stack) ==
    IF i > Len(targets) \/ acc.fault # "none" THEN acc
    ELSE
    LET target == targets[i]
        acc1 ==
          IF contributesRange(target, context)
          THEN addLocation(acc, d, target.range)
          ELSE IF target.type = "referenceResults"
          THEN resolveReferenceResult(acc, d, target.result, context, stack)
          ELSE IF target.type = "referenceLinks"
          THEN [acc EXCEPT !.monikers = Append(@, target.result)]
          ELSE IF target.type = "vertex" /\ target.label = "range"
          THEN addLocation(acc, d, target)
          ELSE acc
    IN  resolveReferenceTargets(acc1, d, targets, i + 1, context, stack)

resolveReferenceResult(acc, d, referenceResult, context, stack) ==
    IF acc.fault # "none" THEN acc
    ELSE IF referenceResult.id \in stack THEN [acc EXCEPT !.fault = "RangeError"]
    ELSE LET targets == item(d, referenceResult)
         IN  IF targets = None THEN acc
             ELSE resolveReferenceTargets(acc, d, targets[1], 1, context,
                                          stack \cup {referenceResult.id})

\* findReferences' loop over the vertices attached to one matching moniker.
RECURSIVE referencesOfVertices(_, _, _, _, _)
referencesOfVertices(acc, d, vertices, i, context) ==
    IF i > Len(vertices) \/ acc.fault # "none" THEN acc
    ELSE LET resultPath == getResultPath(d, vertices[i].id, d.out.references)
         IN  IF resultPath.loops THEN [acc EXCEPT !.fault = "hang"]
             ELSE IF resultPath.result = None
             THEN referencesOfVertices(acc, d, vertices, i + 1, context)
             ELSE referencesOfVertices(
                      resolveReferenceResult(acc, d, resultPath.result[1].value,
                                             context, {}),
                      d, vertices, i + 1, context)

\* findReferences' loop over the monikers that share a key.
RECURSIVE referencesOfMatching(_, _, _, _, _)
referencesOfMatching(acc, d, matchingMonikers, i, context) ==
    IF i > Len(matchingMonikers) \/ acc.fault # "none" THEN acc
    ELSE LET vertices == findVerticesForMoniker(d, matchingMonikers[i])
         IN  referencesOfMatching(
                 IF vertices = None THEN acc
                 ELSE referencesOfVertices(acc, d, vertices[1], 1, context),
                 d, matchingMonikers, i + 1, context)

\* A variant of expandsMoniker that expands no moniker.
expandsMonikerNever(dedupMonikers, key) == FALSE

\* Whether findReferences' loop expands this moniker key.
expandsMoniker(dedupMonikers, key) == key \notin dedupMonikers

\* findReferences' loop over the monikers array, which grows while the loop
\* runs (reference links push onto it).
RECURSIVE referencesOfMonikers(_, _, _, _)
referencesOfMonikers(acc, d, i, context) ==
    IF i > Len(acc.monikers) \/ acc.fault # "none" THEN acc
    ELSE LET key == keyOf(acc.monikers[i])
         IN  IF ~expandsMoniker(acc.dedupMonikers, key)
             THEN referencesOfMonikers(acc, d, i + 1, context)
             ELSE LET acc1 == [acc EXCEPT !.dedupMonikers = @ \cup {key}]
                  IN  referencesOfMonikers(
                          IF Has(d.indices.monikers, key)
                          THEN referencesOfMatching(acc1, d,
                                   d.indices.monikers[key], 1, context)
                          ELSE acc1,
                          d, i + 1, context)

\* The closure findReferences of references, for one range.
findReferences(acc, d, range, context) ==
    IF acc.fault # "none" THEN acc
    ELSE
    LET resultPath == getResultPath(d, range.id, d.out.references)
    IN  IF resultPath.loops THEN [acc EXCEPT !.fault = "hang"]
        ELSE IF resultPath.result = None THEN acc
        ELSE LET acc1 == [acc EXCEPT
                             !.monikers = getMostSpecificMoniker(resultPath)]
                 acc2 == resolveReferenceResult(acc1, d,
                             resultPath.result[1].value, context, {})
             IN  referencesOfMonikers(acc2, d, 1, context)

RECURSIVE findReferencesOfRanges(_, _, _, _, _)
findReferencesOfRanges(acc, d, ranges, i, context) ==
    IF i > Len(ranges) THEN acc
    ELSE findReferencesOfRanges(findReferences(acc, d, ranges[i], context),
                                d, ranges, i + 1, context)

references(d, uri, position, context) ==
    LET ranges == findRangesFromPosition(d, toDatabase(uri), position)
    IN  IF ranges = None THEN ReturnUndefined
        ELSE Returned(findReferencesOfRanges(NewQuery, d, ranges[1], 1, context))

----------------------------------------------------------------------------
(* allDefinitions and the unused-definitions driver.                       *)

\* The token that stands for the substring '<constructor>' in backquotes.
ConstructorMarker == "<constructor>"

\* A variant of isExportedDefinition that keeps imports, not exports.
isImportedDefinition(moniker) ==
    /\ moniker # None
    /\ Field(moniker[1], "kind") = "import"
    /\ EndsWithDot(moniker[1].identifier)

\* The three filters of allDefinitions on the most specific moniker
\* (optional) of a range: which ranges it asks definitions() about.
isExportedDefinition(moniker) ==
    /\ moniker # None
    /\ Field(moniker[1], "kind") = "export"
    /\ EndsWithDot(moniker[1].identifier)
    /\ ~Includes(moniker[1].identifier, ConstructorMarker)
    /\ ~Includes(moniker[1].identifier, "#getDerivedStateFromProps()")
    /\ ~Includes(moniker[1].identifier, "#propTypes")

\* results after one item of a document's contains list: r is
\* [results, fault].
definitionsOfItem(r, d, document, containedItem) ==
    IF containedItem.label # "range" THEN r
    ELSE
    LET resultPath == getResultPath(d, containedItem.id, d.out.definition)
    IN  IF resultPath.loops THEN [r EXCEPT !.fault = "hang"]
        ELSE IF ~isExportedDefinition(getMostSpecificMoniker(resultPath)) THEN r
        ELSE LET found == definitions(d, document.uri, containedItem.start)
             IN  CASE found.kind = "locations" ->
                        [r EXCEPT !.results = @ \o found.locations]
                   [] found.kind = "undefined" -> r
                   [] OTHER -> [r EXCEPT !.fault = found.kind]

RECURSIVE definitionsOfItems(_, _, _, _, _)
definitionsOfItems(r, d, document, contains, i) ==
    IF i > Len(contains) \/ r.fault # "none" THEN r
    ELSE definitionsOfItems(definitionsOfItem(r, d, document, contains[i]),
                            d, document, contains, i + 1)

\* The loop of allDefinitions over the documents of the URI; None on the
\* early return.
RECURSIVE definitionsOfDocuments(_, _, _, _)
definitionsOfDocuments(r, d, documents, i) ==
    IF i > Len(documents) \/ r.fault # "none" THEN Some(r)
    ELSE IF documentHasNoRanges(d, documents[i]) THEN None
    ELSE definitionsOfDocuments(
             definitionsOfItems(r, d, documents[i],
                                d.out.contains[documents[i].id], 1),
             d, documents, i + 1)

\* The final filter of allDefinitions.
RECURSIVE filterByUri(_, _)
filterByUri(results, url) ==
    IF results = << >> THEN << >>
    ELSE (IF Head(results).uri = url THEN <<Head(results)>> ELSE << >>)
         \o filterByUri(Tail(results), url)

allDefinitions(d, uri) ==
    LET url == toDatabase(uri)
    IN  IF ~Has(d.indices.documents, url) THEN ReturnUndefined
        ELSE
        LET r == definitionsOfDocuments([results |-> << >>, fault |-> "none"],
                                        d, d.indices.documents[url].documents, 1)
        IN  IF r = None THEN ReturnUndefined
            ELSE IF r[1].fault # "none" THEN Fault(r[1].fault)
            ELSE IF Len(r[1].results) > 0
            THEN ReturnLocations(filterByUri(r[1].results, url))
            ELSE ReturnUndefined

\* The body of the driver's loop over allDefinitions(uri): the references of
\* one definition, and whether the driver prints it as unused.
referencesOfDefinition(d, definition) ==
    references(d, definition.uri, definition.range.start,
               [includeDeclaration |-> TRUE])

printsAsUnused(d, definition) ==
    LET refs == referencesOfDefinition(d, definition)
    IN  refs.kind = "locations" /\ Len(refs.locations) = 1

----------------------------------------------------------------------------
(* The lines of a dump.                                                    *)

Pos(line, character) == [line |-> line, character |-> character]
Span(sl, sc, el, ec) == [start |-> Pos(sl, sc), end |-> Pos(el, ec)]

\* p is at or before q.
AtOrBefore(p, q) ==
    p.line < q.line \/ (p.line = q.line /\ p.character <= q.character)

\* Every span over Positions.
AllSpans ==
    {[start |-> p, end |-> q] : <<p, q>> \in
        {pq \in Positions \X Positions : AtOrBefore(pq[1], pq[2])}}

VDocument(id, uri, contents) ==
    [id |-> id, type |-> "vertex", label |-> "document", uri |-> uri,
     contents |-> contents]
VDocumentNoContents(id, uri) ==
    [id |-> id, type |-> "vertex", label |-> "document", uri |-> uri]
VRange(id, span) ==
    [id |-> id, type |-> "vertex", label |-> "range",
     start |-> span.start, end |-> span.end]
VMoniker(id, scheme, identifier, kind) ==
    [id |-> id, type |-> "vertex", label |-> "moniker", scheme |-> scheme,
     identifier |-> identifier, kind |-> kind]
VMetaData(id) == [id |-> id, type |-> "vertex", label |-> "metaData"]
VLegacyMetaData(id, projectRoot) ==
    [id |-> id, type |-> "vertex", label |-> "metaData",
     projectRoot |-> projectRoot]
VPlain(id, label) == [id |-> id, type |-> "vertex", label |-> label]

E11(label, outV, inV) ==
    [type |-> "edge", label |-> label, outV |-> outV, inV |-> inV]
E1N(label, outV, inVs) ==
    [type |-> "edge", label |-> label, outV |-> outV, inVs |-> inVs]
EItem(outV, inVs, property) ==
    [type |-> "edge", label |-> "item", outV |-> outV, inVs |-> inVs,
     property |-> property]

\* The URIs of the documents of the dumps, as the dumps spell them, and the
\* URIs a caller asks about.
UriA == "file:///a%20b.ts"
UriADecoded == "file:///a b.ts"
UriB == "file:///b.ts"
QueryUris == {UriA, UriB}

\* All permutations of a set, as sequences.
RECURSIVE Perms(_)
Perms(S) ==
    IF S = {} THEN {<< >>}
    ELSE UNION {{<<x>> \o p : p \in Perms(S \ {x})} : x \in S}

\* The concatenation of a sequence of sequences.
RECURSIVE Concat(_)
Concat(ss) == IF ss = << >> THEN << >> ELSE Head(ss) \o Concat(Tail(ss))

----------------------------------------------------------------------------
(* The dumps the model loads.                                              *)

When(c, lines) == IF c THEN lines ELSE << >>

\* Moniker identifiers (scip symbols), as token sequences.
IdFoo == <<"pkg/", "foo", "()", ".">>
IdBar == <<"pkg/", "bar", "()", ".">>
IdConstructor == <<"pkg/", "Foo#", ConstructorMarker, "()", ".">>
IdDerivedState == <<"pkg/", "Foo", "#getDerivedStateFromProps()", ".">>
IdPropTypes == <<"pkg/", "Foo", "#propTypes", ".">>
IdType == <<"pkg/", "Foo", "#">>
Identifiers == {IdFoo, IdConstructor, IdDerivedState, IdPropTypes, IdType}

DefSpan == Span(0, 0, 0, 1)
UseSpan == Span(1, 0, 1, 1)

\* One symbol as an indexer emits it, with vertex ids o+1..o+8: a document
\* with the definition range (and a use range when withUse), both pointing by
\* next to a result set that carries the definition result and the reference
\* result.  The moniker is attached to the result set or to the definition
\* range (attach), or left out; with extra, the result set carries a second
\* moniker of another identifier.
SymbolDump(o, uri, contents, identifier, kind, attach, withUse, extra) ==
    <<VDocument(o + 1, uri, contents), VRange(o + 2, DefSpan)>>
    \o When(withUse, <<VRange(o + 3, UseSpan)>>)
    \o <<VPlain(o + 4, "resultSet"), VPlain(o + 5, "definitionResult"),
         VPlain(o + 6, "referenceResult")>>
    \o When(attach # "none", <<VMoniker(o + 7, "scip", identifier, kind)>>)
    \o When(extra, <<VMoniker(o + 8, "scip", IdBar, "export")>>)
    \o <<E1N("contains", o + 1,
             <<o + 2>> \o When(withUse, <<o + 3>>)),
         E11("next", o + 2, o + 4)>>
    \o When(withUse, <<E11("next", o + 3, o + 4)>>)
    \o When(attach = "resultSet", <<E11("moniker", o + 4, o + 7)>>)
    \o When(attach = "range", <<E11("moniker", o + 2, o + 7)>>)
    \o When(extra, <<E11("moniker", o + 4, o + 8)>>)
    \o <<E11("textDocument/definition", o + 4, o + 5),
         E1N("item", o + 5, <<o + 2>>),
         E11("textDocument/references", o + 4, o + 6),
         EItem(o + 6, <<o + 2>>, "definitions")>>
    \o When(withUse, <<EItem(o + 6, <<o + 3>>, "references")>>)

\* Single symbols: every identifier and moniker kind, with and without a use.
SymbolDumps ==
    {SymbolDump(0, UriA, "c1", identifier, kind, attach, withUse, FALSE) :
        identifier \in Identifiers, kind \in {"export", "import", "local"},
        attach \in {"resultSet", "range", "none"}, withUse \in BOOLEAN}

\* Two dumps of the same workspace, A and B, with disjoint vertex ids.  B's
\* moniker has A's identifier or another; B's document has A's URI or its
\* own; with withRoot, each dump starts with a metaData line that declares
\* the workspace root.
MergedPairs ==
    {<<When(withRoot, <<VLegacyMetaData(9, "/ws1")>>)
         \o SymbolDump(0, UriA, "c1", IdFoo, kindA, attachA, TRUE, extraA),
       When(withRoot, <<VLegacyMetaData(19, "/ws1")>>)
         \o SymbolDump(10, uriB, "c2", identifierB, "export",
                       attachB, TRUE, FALSE)>> :
        kindA \in {"export", "local"},
        attachA \in {"resultSet", "range"}, extraA \in BOOLEAN,
        attachB \in {"resultSet", "range"},
        identifierB \in {IdFoo, IdType}, uriB \in {UriADecoded, UriB},
        withRoot \in BOOLEAN}

\* A and B loaded into one store in either order, and A loaded alone.
MergedDumps ==
    UNION {{pair[1], pair[1] \o pair[2], pair[2] \o pair[1]} :
              pair \in MergedPairs}

\* A range with a definition result and a reference result of its own, each
\* holding the range itself: ids r (the range), r+10 and r+20 (the results).
OwnResultVertices(r, span) ==
    <<VRange(r, span), VPlain(r + 10, "definitionResult"),
      VPlain(r + 20, "referenceResult")>>
OwnResultEdges(r) ==
    <<E11("textDocument/definition", r, r + 10), E1N("item", r + 10, <<r>>),
      E11("textDocument/references", r, r + 20),
      EItem(r + 20, <<r>>, "references")>>

\* One document with two or three ranges that may nest, whose contains edges
\* are ingested in every order, as one 1:N edge or as 1:1 edges.
NestedDumps ==
    UNION {
      LET ids == IF third THEN {2, 3, 4} ELSE {2, 3}
          vertices ==
              <<VDocument(1, UriB, "c1")>> \o OwnResultVertices(2, span1)
              \o OwnResultVertices(3, span2)
              \o When(third, OwnResultVertices(4, Span(0, 1, 1, 0)))
          edges == OwnResultEdges(2) \o OwnResultEdges(3)
                   \o When(third, OwnResultEdges(4))
      IN  {vertices \o <<E1N("contains", 1, order)>> \o edges :
              order \in Perms(ids)}
          \cup {vertices
                \o [i \in 1..2 |-> E11("contains", 1, order[i])] \o edges :
              order \in Perms({2, 3})} :
        span1 \in {Span(0, 0, 1, 1), Span(0, 0, 0, 1)},
        span2 \in AllSpans, third \in BOOLEAN}

\* The contains edge of a document whose range is r: to the range, to the
\* definition result r + 10 only (no range), or no edge.
ContainsLines(kind, document, r) ==
    CASE kind = "range" -> <<E1N("contains", document, <<r>>)>>
      [] kind = "other" -> <<E1N("contains", document, <<r + 10>>)>>
      [] kind = "none" -> << >>

\* Two dumps, each with a document of one URI (spelled encoded and decoded)
\* and a range of its own; the contents of the documents agree, differ or
\* are missing, and either document may contain its range, something that is
\* no range, or nothing.
DocumentPairs ==
    {<<<<VDocument(1, UriA, "c1")>> \o OwnResultVertices(3, DefSpan)
         \o ContainsLines(contains1, 1, 3) \o OwnResultEdges(3),
       <<document2>> \o OwnResultVertices(4, Span(0, 0, 1, 1))
         \o ContainsLines(contains2, 2, 4) \o OwnResultEdges(4)>> :
        document2 \in {VDocument(2, UriADecoded, "c1"),
                       VDocument(2, UriADecoded, "c2"),
                       VDocumentNoContents(2, UriADecoded)},
        contains1 \in {"range", "other", "none"},
        contains2 \in {"range", "other", "none"}}

\* The two dumps loaded into one store in either order.
DocumentDumps ==
    UNION {{pair[1] \o pair[2], pair[2] \o pair[1]} : pair \in DocumentPairs}

\* One document with four ranges of one character each.  Range 2 has the
\* reference result 6, whose items attach range 3 under a tag (and, with
\* also, as a reference too).  With nesting, 6 holds the reference result 7,
\* whose items attach range 4 under a tag; with cyclic nesting 7 holds 6 in
\* turn.  With a link, 6 holds a link to moniker 8; moniker 9 of the same
\* scheme and identifier is attached to range 5, whose reference result 10
\* holds range 5; with a cyclic link, 10 holds the link to 8 as well.
ReferenceDump(tag1, also, nesting, tag2, link) ==
    <<VDocument(1, UriB, "c1"), VRange(2, Span(0, 0, 0, 0)),
      VRange(3, Span(0, 1, 0, 1)), VRange(4, Span(1, 0, 1, 0)),
      VRange(5, Span(1, 1, 1, 1)), VPlain(6, "referenceResult"),
      VPlain(7, "referenceResult"), VMoniker(8, "scip", IdFoo, "export"),
      VMoniker(9, "scip", IdFoo, "export"), VPlain(10, "referenceResult"),
      E1N("contains", 1, <<2, 3, 4, 5>>),
      E11("textDocument/references", 2, 6), EItem(6, <<3>>, tag1)>>
    \o When(also, <<EItem(6, <<3>>, "references")>>)
    \o When(nesting # "none",
            <<EItem(6, <<7>>, "referenceResults"), EItem(7, <<4>>, tag2)>>)
    \o When(nesting = "cyclic", <<EItem(7, <<6>>, "referenceResults")>>)
    \o When(link # "none",
            <<E11("moniker", 5, 9), E11("textDocument/references", 5, 10),
              EItem(10, <<5>>, "references"), EItem(6, <<8>>, "referenceLinks")>>)
    \o When(link = "cyclic", <<EItem(10, <<8>>, "referenceLinks")>>)

ItemTags == {"declarations", "definitions", "references"}

ReferenceDumps ==
    {ReferenceDump(tag1, also, nesting, tag2, link) :
        tag1 \in ItemTags, also \in BOOLEAN,
        nesting \in {"none", "nested", "cyclic"}, tag2 \in ItemTags,
        link \in {"none", "link", "cyclic"}}

\* One range whose result path is a chain of two result sets: range 2, then
\* 3, then 4, by next edges.  The reference and definition results hang on
\* the bearer: the last result set, the middle one, or none; with a cyclic
\* chain nothing bears a result and 4 points back to 2.  Each of the three
\* vertices may carry a moniker of its own.
ChainDump(bearer, m2, m3, m4) ==
    <<VDocument(1, UriB, "c1"), VRange(2, DefSpan), VPlain(3, "resultSet"),
      VPlain(4, "resultSet"), VPlain(5, "referenceResult"),
      VPlain(6, "definitionResult"),
      VMoniker(7, "scip", IdFoo, "export"), VMoniker(8, "scip", IdBar, "export"),
      VMoniker(9, "scip", IdPropTypes, "export"),
      E1N("contains", 1, <<2>>), E11("next", 2, 3), E11("next", 3, 4)>>
    \o When(bearer = "cyclic", <<E11("next", 4, 2)>>)
    \o When(m2, <<E11("moniker", 2, 7)>>)
    \o When(m3, <<E11("moniker", 3, 8)>>)
    \o When(m4, <<E11("moniker", 4, 9)>>)
    \o When(bearer \in {"last", "middle"},
            LET b == IF bearer = "last" THEN 4 ELSE 3
            IN  <<E11("textDocument/references", b, 5),
                  EItem(5, <<2>>, "references"),
                  E11("textDocument/definition", b, 6), E1N("item", 6, <<2>>)>>)

ChainDumps ==
    {ChainDump(bearer, m2, m3, m4) :
        bearer \in {"last", "middle", "none", "cyclic"},
        m2 \in BOOLEAN, m3 \in BOOLEAN, m4 \in BOOLEAN}

\* The vertex labels of the exchange format that the specification names.
Vocabulary ==
    {"document", "range", "moniker", "project", "definitionResult",
     "declarationResult", "referenceResult", "implementationResult",
     "resultSet", "hoverResult", "packageInformation", "metaData"}

\* Further vertex labels of the protocol, and one that is no label of it.
OtherVertexLabels ==
    {"$event", "documentSymbolResult", "foldingRangeResult",
     "documentLinkResult", "diagnosticResult", "typeDefinitionResult", "bogus"}

\* A vertex of the label with the fields the label needs.
VertexOfLabel(id, label) ==
    CASE label = "document" -> VDocument(id, UriA, "c1")
      [] label = "range" -> VRange(id, DefSpan)
      [] label = "moniker" -> VMoniker(id, "scip", IdFoo, "export")
      [] OTHER -> VPlain(id, label)

\* The edge labels with a map of their own in Out, by the specification.
RelationLabels ==
    {"textDocument/declaration", "textDocument/definition",
     "textDocument/references", "textDocument/typeDefinition",
     "textDocument/implementation", "textDocument/documentSymbol",
     "textDocument/foldingRange", "textDocument/documentLink",
     "textDocument/diagnostic", "textDocument/hover"}

\* The field of Out that a relation label belongs to.
OutFieldOf(label) ==
    CASE label = "textDocument/declaration" -> "declaration"
      [] label = "textDocument/implementation" -> "implementation"
      [] OTHER -> RelationMap[label]

RecognizedEdgeLabels == {"contains", "item", "next", "moniker"} \cup RelationLabels

\* Dumps of one line of every vertex label, edge label, item property and
\* element type, each followed by a line that shows whether load went on; an
\* edge to a vertex that is not there; and a declaration as an indexer
\* emits it.
LabelDumps ==
    {<<VertexOfLabel(1, label), VPlain(2, "resultSet")>> :
        label \in Vocabulary \cup OtherVertexLabels}
    \cup {<<VDocument(1, UriA, "c1"), VRange(2, DefSpan),
            VPlain(3, "resultSet"), E1N("contains", 1, <<2>>),
            E11(label, 2, 3), VPlain(4, "resultSet")>> :
            label \in RecognizedEdgeLabels \cup {"attach", "bogus"}}
    \cup {<<VDocument(1, UriA, "c1"), VRange(2, DefSpan),
            VPlain(3, "referenceResult"), E1N("contains", 1, <<2>>),
            E11("textDocument/references", 2, 3), EItem(3, <<2>>, property),
            VPlain(4, "resultSet")>> :
            property \in {"references", "declarations", "definitions",
                          "referenceResults", "referenceLinks", "bogus"}}
    \cup {<<[id |-> 1, type |-> "comment"], VPlain(2, "resultSet")>>,
          <<VRange(1, DefSpan), E11("next", 1, 2)>>,
          <<VRange(1, DefSpan), VRange(2, UseSpan), E1N("next", 3, <<1, 2>>)>>,
          <<VRange(1, DefSpan), VRange(2, UseSpan), E1N("contains", 1, <<2, 3>>)>>,
          <<VDocument(1, UriA, "c1"), VRange(2, DefSpan),
            VPlain(3, "resultSet"), VPlain(4, "declarationResult"),
            E1N("contains", 1, <<2>>), E11("next", 2, 3),
            E11("textDocument/declaration", 3, 4), E1N("item", 4, <<2>>)>>}

\* How many dumps with a metaData line the model loads into one store.
MaxDumps == 3

\* What the metaData line of a dump declares: no projectRoot, an empty one,
\* or one of two workspace roots.
MetaDataChoices == {"absent", "", "/ws1", "/ws2"}
MetaDataLine(id, choice) ==
    IF choice = "absent" THEN VMetaData(id) ELSE VLegacyMetaData(id, choice)

RECURSIVE SeqsOfLen(_, _)
SeqsOfLen(S, n) ==
    IF n = 0 THEN {<< >>}
    ELSE {<<x>> \o t : x \in S, t \in SeqsOfLen(S, n - 1)}

\* Up to MaxDumps dumps in a row, each a metaData line and a document.
MetaDataDumps ==
    UNION {
      {Concat([i \in 1..n |->
                 <<MetaDataLine(2 * i, choices[i]),
                   VDocument(2 * i + 1, UriB, "c1")>>]) :
          choices \in SeqsOfLen(MetaDataChoices, n)} : n \in 1..MaxDumps}

Dumps ==
    SymbolDumps \cup MergedDumps \cup NestedDumps \cup DocumentDumps
    \cup LabelDumps \cup MetaDataDumps \cup ReferenceDumps \cup ChainDumps

----------------------------------------------------------------------------
(* The state machine: the driver of src/src/index.ts creates the store,    *)
(* loads the dumps line by line, and then queries.                         *)

Init ==
    /\ db = JsonDatabase
    /\ file \in Dumps
    /\ pc = 0
    /\ status = "ok"
    /\ result = [op |-> "none"]

\* load() of a whole file into a store: the loop over the lines, which an
\* exception ends.
RECURSIVE loadLines(_, _, _)
loadLines(d, lines, i) ==
    IF i > Len(lines) THEN Ok(d)
    ELSE LET r == processLine(d, lines[i])
         IN  IF r.threw THEN r ELSE loadLines(r.d, lines, i + 1)

load(d, lines) == loadLines(d, lines, 1)

\* One iteration of load()'s loop.  An exception ends the load and leaves
\* the store as the throwing line left it.
LoadLine ==
    /\ status = "ok"
    /\ pc < Len(file)
    /\ LET r == processLine(db, file[pc + 1])
       IN  /\ db' = r.d
           /\ status' = IF r.threw THEN "failed" ELSE "ok"
           /\ pc' = IF r.threw THEN pc ELSE pc + 1
    /\ UNCHANGED <<file, result>>

\* load() is synchronous: a query runs once the loads have ended.  No query
\* changes the store, so a run of the model makes one query.
Loaded == (status = "failed" \/ pc = Len(file)) /\ result.op = "none"

Declarations ==
    /\ Loaded
    /\ \E uri \in QueryUris, position \in Positions :
          result' = [op |-> "declarations", uri |-> uri, position |-> position,
                     value |-> declarations(db, uri, position)]
    /\ UNCHANGED <<db, file, pc, status>>

Definitions ==
    /\ Loaded
    /\ \E uri \in QueryUris, position \in Positions :
          result' = [op |-> "definitions", uri |-> uri, position |-> position,
                     value |-> definitions(db, uri, position)]
    /\ UNCHANGED <<db, file, pc, status>>

References ==
    /\ Loaded
    /\ \E uri \in QueryUris, position \in Positions,
          includeDeclaration \in BOOLEAN :
          LET context == [includeDeclaration |-> includeDeclaration]
          IN  result' = [op |-> "references", uri |-> uri,
                         position |-> position, context |-> context,
                         value |-> references(db, uri, position, context)]
    /\ UNCHANGED <<db, file, pc, status>>

AllDefinitions ==
    /\ Loaded
    /\ \E uri \in QueryUris :
          result' = [op |-> "allDefinitions", uri |-> uri,
                     value |-> allDefinitions(db, uri)]
    /\ UNCHANGED <<db, file, pc, status>>

Next ==
    \/ LoadLine
    \/ Declarations
    \/ Definitions
    \/ References
    \/ AllDefinitions

Spec == Init /\ [][Next]_vars

----------------------------------------------------------------------------
(* Properties.                                                             *)

\* The last query was a position query that returned an array.
PositionQueryReturned ==
    /\ result.op \in {"declarations", "definitions", "references"}
    /\ result.value.kind = "locations"

NoDuplicates(locations) ==
    \A i, j \in 1..Len(locations) : i # j => locations[i] # locations[j]

\* The most specific moniker (optional) of a range for a relation.
MonikerOfRange(d, range, edges) ==
    getMostSpecificMoniker(getResultPath(d, range.id, edges))

\* C1: the array that definitions, declarations or references returns never
\* holds two locations with the same URI and the same start and end.
C1_NoDuplicateLocations ==
    PositionQueryReturned => NoDuplicates(result.value.locations)

\* A references query returned two or more locations for a range whose
\* moniker is indexed: the expansion of the moniker resolved the range's own
\* reference result a second time, and every location of it was offered to
\* addLocation twice.
C1_Witness ==
    /\ result.op = "references"
    /\ result.value.kind = "locations"
    /\ Len(result.value.locations) >= 2
    /\ LET ranges == findRangesFromPosition(db, toDatabase(result.uri),
                                            result.position)
       IN  \E i \in 1..Len(ranges[1]) :
              LET moniker == MonikerOfRange(db, ranges[1][i], db.out.references)
              IN  /\ moniker # None
                  /\ Has(db.indices.monikers, keyOf(moniker[1]))

\* C2: the array that allDefinitions returns never holds two locations with
\* the same URI and the same range.
C2_AllDefinitionsIsASet ==
    (result.op = "allDefinitions" /\ result.value.kind = "locations")
        => NoDuplicates(result.value.locations)

\* Geometry as the specification words it: span a lies within span b, and
\* a position lies in a span (both ends inclusive).
Within(a, b) == AtOrBefore(b.start, a.start) /\ AtOrBefore(a.end, b.end)
StrictlyWithin(a, b) == Within(a, b) /\ ~Within(b, a)
InSpan(position, r) ==
    AtOrBefore(r.start, position) /\ AtOrBefore(position, r.end)

\* The document instances of a URI, in the order of ingestion.
Instances(d, uri) ==
    IF Has(d.indices.documents, toDatabase(uri))
    THEN d.indices.documents[toDatabase(uri)].documents ELSE << >>

\* The ranges a document instance contains, and those around a position.
RangesOf(d, document) ==
    IF Has(d.out.contains, document.id)
    THEN {d.out.contains[document.id][i] :
            i \in {j \in 1..Len(d.out.contains[document.id]) :
                     d.out.contains[document.id][j].label = "range"}}
    ELSE {}
RangesOfUri(d, uri) ==
    UNION {RangesOf(d, Instances(d, uri)[i]) : i \in 1..Len(Instances(d, uri))}
RangesAround(d, document, position) ==
    {r \in RangesOf(d, document) : InSpan(position, r)}

\* The ranges the position resolver returned for the last query.
Picked ==
    LET ranges == findRangesFromPosition(db, toDatabase(result.uri),
                                         result.position)
    IN  IF ranges = None THEN {} ELSE {ranges[1][i] : i \in 1..Len(ranges[1])}

\* r lies strictly within every other range of the set.
Narrowest(r, ranges) ==
    \A other \in ranges : other.id # r.id => StrictlyWithin(r, other)

\* The narrowest range around the position in each document instance that
\* has one, in the order of the instances.
RECURSIVE NarrowestOfInstances(_, _, _)
NarrowestOfInstances(d, documents, position) ==
    IF documents = << >> THEN << >>
    ELSE LET around == RangesAround(d, Head(documents), position)
         IN  (IF around = {} THEN << >>
              ELSE <<CHOOSE r \in around : Narrowest(r, around)>>)
             \o NarrowestOfInstances(d, Tail(documents), position)

\* Every instance of the queried URI contains something, and the ranges
\* around the queried position in each instance have a narrowest one.
NarrowestExist ==
    /\ Instances(db, result.uri) # << >>
    /\ \A i \in 1..Len(Instances(db, result.uri)) :
          LET document == Instances(db, result.uri)[i]
              around == RangesAround(db, document, result.position)
          IN  /\ ~documentHasNoRanges(db, document)
              /\ around # {} => \E r \in around : Narrowest(r, around)
    /\ \E i \in 1..Len(Instances(db, result.uri)) :
          RangesAround(db, Instances(db, result.uri)[i], result.position) # {}

\* What the last query returns when it resolves through the given ranges.
ResolvedVia(ranges) ==
    CASE result.op = "definitions" ->
            Returned(findTargetsOfRanges(NewQuery, db, db.out.definition,
                                         ranges, 1))
      [] result.op = "declarations" ->
            Returned(findTargetsOfRanges(NewQuery, db, db.out.declaration,
                                         ranges, 1))
      [] result.op = "references" ->
            Returned(findReferencesOfRanges(NewQuery, db, ranges, 1,
                                            result.context))

IsPositionQuery == result.op \in {"declarations", "definitions", "references"}

\* C3: of two ranges of a document instance around the queried position,
\* one strictly within the other, the resolver never picks the outer one;
\* and when the ranges around the position have a narrowest one in each
\* instance, the query resolves through exactly those, whatever the order of
\* the contains edges.
C3_NarrowestRangeSelected ==
    IsPositionQuery =>
        /\ \A i \in 1..Len(Instances(db, result.uri)) :
              \A r1, r2 \in RangesAround(db, Instances(db, result.uri)[i],
                                         result.position) :
                  StrictlyWithin(r2, r1) => r1 \notin Picked
        /\ NarrowestExist =>
              LET narrowest == NarrowestOfInstances(
                                   db, Instances(db, result.uri), result.position)
              IN  /\ Picked = {narrowest[i] : i \in 1..Len(narrowest)}
                  /\ result.value = ResolvedVia(narrowest)

\* A definitions query at a position inside two nested ranges, the inner one
\* ingested before the outer one, returned the location of the inner range.
C3_Witness ==
    /\ result.op = "definitions"
    /\ result.value.kind = "locations"
    /\ \E i \in 1..Len(Instances(db, result.uri)) :
          LET contains == db.out.contains[Instances(db, result.uri)[i].id]
          IN  \E j, k \in 1..Len(contains) :
                /\ j < k
                /\ contains[j].label = "range" /\ contains[k].label = "range"
                /\ InSpan(result.position, contains[j])
                /\ StrictlyWithin(contains[j], contains[k])
                /\ Picked = {contains[j]}
                /\ result.value.locations =
                      <<[uri |-> toDatabase(result.uri),
                         range |-> asRange(contains[j])]>>

\* The lines load() has ingested without throwing.
Ingested == {file[i] : i \in 1..pc}

\* The attachments the ingested dumps make: <<vertex id, moniker vertex>>
\* for every moniker edge to a non-local moniker.
Attachments ==
    {<<e.outV, m>> : <<e, m>> \in
        {em \in Ingested \X Ingested :
            /\ em[1].type = "edge" /\ em[1].label = "moniker"
            /\ em[2].type = "vertex" /\ em[2].label = "moniker"
            /\ em[2].kind # "local"
            /\ em[1].inV = em[2].id}}

SameSymbol(m1, m2) ==
    m1.scheme = m2.scheme /\ m1.identifier = m2.identifier

\* The location of a range of the store.
LocationOf(d, range) ==
    [uri |-> fromDatabase(d.in.contains[range.id].uri), range |-> asRange(range)]

\* The ranges that the items of a reference result contribute under a
\* context, when the items are ranges only.
IncludedRanges(d, referenceResult, context) ==
    LET targets == item(d, referenceResult)
    IN  IF targets = None THEN {}
        ELSE {IF targets[1][i].type = "vertex" THEN targets[1][i]
              ELSE targets[1][i].range :
                i \in {j \in 1..Len(targets[1]) :
                    \/ targets[1][j].type \in {"vertex", "references"}
                    \/ /\ targets[1][j].type \in {"declarations", "definitions"}
                       /\ context.includeDeclaration}}

\* The ranges that the reference result reached from a vertex contributes.
ReferencesFrom(d, vertex, context) ==
    LET resultPath == getResultPath(d, vertex, d.out.references)
    IN  IF resultPath.result = None THEN {}
        ELSE IncludedRanges(d, resultPath.result[1].value, context)

\* Every item of the store is a range of a document, bare or tagged: no
\* nested reference result, no reference link.
OnlyRangeItems(d) ==
    \A id \in DOMAIN d.out.item : \A i \in 1..Len(d.out.item[id]) :
        LET target == d.out.item[id][i]
        IN  \/ target.type = "vertex" /\ Locatable(d, target)
            \/ /\ target.type \in {"references", "declarations", "definitions"}
               /\ Locatable(d, target.range)

\* The vertices of the result path of a range: the trail and the vertex that
\* bears the result.
PathVertices(d, range) ==
    LET resultPath == getResultPath(d, range.id, d.out.references)
        trail == {resultPath.path[i].vertex : i \in 1..Len(resultPath.path)}
    IN  IF resultPath.result = None THEN trail
        ELSE IF resultPath.path = << >> THEN {range.id}
        ELSE trail \cup {d.out.next[resultPath.path[Len(resultPath.path)].vertex].id}

\* The ranges a references query is to return when it starts in the picked
\* ranges and merges by the given monikers of each.
MergedReferences(d, picked, monikersOf(_), context) ==
    UNION {ReferencesFrom(d, r.id, context)
           \cup UNION {ReferencesFrom(d, a[1], context) :
                         a \in {b \in Attachments :
                                  \E m \in monikersOf(r) : SameSymbol(b[2], m)}} :
           r \in picked}

MostSpecificMonikers(range) ==
    LET moniker == MonikerOfRange(db, range, db.out.references)
    IN  IF moniker = None \/ Field(moniker[1], "kind") \in {"local", Undefined}
        THEN {} ELSE {moniker[1]}

PathMonikers(range) ==
    {a[2] : a \in {b \in Attachments : b[1] \in PathVertices(db, range)}}

ReturnedLocations == {result.value.locations[i] : i \in 1..Len(result.value.locations)}

\* No chain of next edges of the store leads back into itself.
AcyclicNext(d) ==
    \A v \in DOMAIN d.out.next : ~getResultPath(d, v, EmptyMap).loops

\* A references query that started in some range of a store whose items are
\* ranges only and whose next edges form no cycle.
ReferencesStarted ==
    /\ result.op = "references"
    /\ Picked # {}
    /\ OnlyRangeItems(db)
    /\ AcyclicNext(db)

\* C4 as written: a references query returns the reference locations of
\* every dump that attaches a moniker with the scheme and identifier of any
\* non-local moniker attached to a vertex of the starting range's result path.
C4_MergesByAnyPathMoniker ==
    ReferencesStarted =>
        /\ result.value.kind = "locations"
        /\ {LocationOf(db, r) :
              r \in MergedReferences(db, Picked, PathMonikers, result.context)}
           \subseteq ReturnedLocations

\* C4, amended: a references query returns exactly the reference locations of
\* the starting ranges and of every dump in the store that attaches a moniker
\* with the scheme and identifier of the starting range's most specific
\* moniker to a vertex whose result path reaches a reference result; a store
\* that holds one dump returns that dump's locations only.
C4_MergesByMostSpecificMoniker ==
    ReferencesStarted =>
        /\ result.value.kind = "locations"
        /\ ReturnedLocations =
              {LocationOf(db, r) :
                  r \in MergedReferences(db, Picked, MostSpecificMonikers,
                                         result.context)}

\* Two dumps with documents of their own attach monikers of one identifier;
\* a references query in the first document returned a location in the second.
C4_Witness ==
    /\ result.op = "references"
    /\ result.uri = UriA
    /\ result.value.kind = "locations"
    /\ \E a, b \in Attachments : a[2].id # b[2].id /\ SameSymbol(a[2], b[2])
    /\ \E i \in 1..Len(result.value.locations) :
          result.value.locations[i].uri = UriB

\* Range r is the definition site of a symbol that is used nowhere else: a
\* document of the URI contains it, a query at its start resolves through it
\* alone, its definition result holds r and nothing else, and the reference
\* results of the symbol, merged over the store, hold no range but r.
DefinesUnusedSymbol(d, uri, r) ==
    /\ OnlyRangeItems(d) /\ AcyclicNext(d)
    /\ r \in RangesOfUri(d, uri)
    /\ findRangesFromPosition(d, toDatabase(uri), r.start) = Some(<<r>>)
    /\ LET resultPath == getResultPath(d, r.id, d.out.definition)
       IN  /\ resultPath.result # None
           /\ item(d, resultPath.result[1].value) = Some(<<r>>)
    /\ LET all == [includeDeclaration |-> TRUE]
       IN  UNION {ReferencesFrom(d, r.id, all)}
           \cup UNION {ReferencesFrom(d, a[1], all) :
                  a \in {b \in Attachments :
                      LET moniker == MonikerOfRange(d, r, d.out.references)
                      IN  /\ moniker # None
                          /\ Field(moniker[1], "kind") \notin {"local", Undefined}
                          /\ SameSymbol(b[2], moniker[1])}}
           = {r}

\* The most specific moniker of r's definition has kind export and an
\* identifier that ends in '.'.
ExportedWithDot(d, r) ==
    LET moniker == MonikerOfRange(d, r, d.out.definition)
    IN  /\ moniker # None
        /\ Field(moniker[1], "kind") = "export"
        /\ EndsWithDot(moniker[1].identifier)

\* The identifier names no constructor, getDerivedStateFromProps or
\* propTypes.
NotExcluded(d, r) ==
    LET identifier == MonikerOfRange(d, r, d.out.definition)[1].identifier
    IN  /\ ~Includes(identifier, ConstructorMarker)
        /\ ~Includes(identifier, "#getDerivedStateFromProps()")
        /\ ~Includes(identifier, "#propTypes")

\* What C5 promises of the last query for the unused symbols r that satisfy
\* Qualifies: allDefinitions returns r's location, the driver prints it, and
\* references with includeDeclaration at r's start returns r's location alone.
DeadCodeDetected(Qualifies(_)) ==
    /\ result.op = "allDefinitions" =>
          \A r \in RangesOfUri(db, result.uri) :
              (DefinesUnusedSymbol(db, result.uri, r) /\ Qualifies(r)) =>
                  /\ result.value.kind = "locations"
                  /\ LocationOf(db, r) \in ReturnedLocations
                  /\ printsAsUnused(db, LocationOf(db, r))
    /\ (result.op = "references" /\ result.context.includeDeclaration) =>
          \A r \in {x \in Picked : x.start = result.position} :
              (DefinesUnusedSymbol(db, result.uri, r) /\ Qualifies(r)) =>
                  result.value = ReturnLocations(<<LocationOf(db, r)>>)

QualifiesAsWritten(r) == ExportedWithDot(db, r)
QualifiesAmended(r) == ExportedWithDot(db, r) /\ NotExcluded(db, r)

\* C5 as written: every unused symbol whose most specific moniker has kind
\* export and an identifier ending in '.' is found by allDefinitions and has
\* exactly one reference, itself.
C5_DeadCodeOfEveryExport == DeadCodeDetected(QualifiesAsWritten)

\* C5, amended: the same for the symbols whose identifier names no
\* constructor, getDerivedStateFromProps or propTypes.
C5_DeadCodeOfListedExports == DeadCodeDetected(QualifiesAmended)

\* allDefinitions returned the location of an unused exported definition.
C5_Witness ==
    /\ result.op = "allDefinitions"
    /\ result.value.kind = "locations"
    /\ \E r \in RangesOfUri(db, result.uri) :
          /\ DefinesUnusedSymbol(db, result.uri, r)
          /\ QualifiesAmended(r)
          /\ result.value.locations = <<LocationOf(db, r)>>
          /\ printsAsUnused(db, LocationOf(db, r))

\* The line at which load() threw.
Failed == status = "failed"
FailingLine == file[pc + 1]

IsVertex(line, label) ==
    line.type = "vertex" /\ Field(line, "label") = label

\* C6: every line that load() ingested without throwing is a vertex or an
\* edge with a label of the recognized set.
C6_UnrecognizedLabelsAbort ==
    \A line \in Ingested :
        /\ line.type = "vertex" => line.label \in Vocabulary
        /\ line.type = "edge" => line.label \in RecognizedEdgeLabels

\* C7: every ingested 1:1 edge with a relation label, declaration and
\* implementation included, is in the map of Out that belongs to its label.
C7_RelationEdgesPopulateMaps ==
    \A line \in Ingested :
        (line.type = "edge" /\ line.label \in RelationLabels
         /\ "inV" \in DOMAIN line) =>
            /\ Has(db.out[OutFieldOf(line.label)], line.outV)
            /\ db.out[OutFieldOf(line.label)][line.outV].id = line.inV

\* C8: load() never throws at a vertex whose label is of the vocabulary
\* (but at a metaData vertex, which may declare a second workspace root).
C8_VocabularyIngested ==
    Failed =>
        ~(/\ FailingLine.type = "vertex"
          /\ Field(FailingLine, "label") \in Vocabulary \ {"metaData"})

\* What C9 promises of a position query on a URI for the instances that
\* satisfy Queryable: each instance with a range around the position has one
\* of its ranges picked.
InstancesConsidered(Queryable) ==
    (IsPositionQuery /\ Queryable) =>
        \A i \in 1..Len(Instances(db, result.uri)) :
            LET around == RangesAround(db, Instances(db, result.uri)[i],
                                       result.position)
            IN  around # {} =>
                  /\ Picked \cap around # {}
                  /\ result.value.kind # "undefined"

\* load() never throws at a document, and every ingested document is in the
\* instance list of its URI.
DocumentsKept ==
    /\ Failed => ~IsVertex(FailingLine, "document")
    /\ \A line \in Ingested :
          IsVertex(line, "document") =>
              \E i \in 1..Len(Instances(db, line.uri)) :
                  Instances(db, line.uri)[i].id = line.id

\* C9 as written: documents of one URI are all kept, whatever their content,
\* and a position query on the URI considers the ranges of every instance.
C9_EveryInstanceQueried == DocumentsKept /\ InstancesConsidered(TRUE)

\* C9, amended: ... considers the ranges of every instance, provided every
\* instance of the URI contains something (else the query returns undefined).
C9_InstancesWithRangesQueried ==
    /\ DocumentsKept
    /\ InstancesConsidered(
           \A i \in 1..Len(Instances(db, result.uri)) :
               ~documentHasNoRanges(db, Instances(db, result.uri)[i]))

\* A definitions query on a URI with two instances of different content
\* resolved through a range of each.
C9_Witness ==
    /\ result.op = "definitions"
    /\ result.value.kind = "locations"
    /\ Len(result.value.locations) = 2
    /\ Len(Instances(db, result.uri)) = 2
    /\ Md5(Field(Instances(db, result.uri)[2], "contents"))
          # db.indices.documents[toDatabase(result.uri)].hash
    /\ \A i \in 1..2 :
          Picked \cap RangesOf(db, Instances(db, result.uri)[i]) # {}

\* A metaData line that declares a workspace root.
DeclaresRoot(line) ==
    /\ IsVertex(line, "metaData")
    /\ "projectRoot" \in DOMAIN line
    /\ Truthy(line.projectRoot)

\* C10: every root that an ingested metaData line declares is the recorded
\* root, so the recorded root is the first one seen and no second, different
\* root was accepted; and load() throws at a metaData line only if the line
\* has a projectRoot that differs from the root already recorded.
C10_SingleWorkspaceRoot ==
    /\ \A line \in Ingested :
          DeclaresRoot(line) => db.workspaceRoot = line.projectRoot
    /\ (\A line \in Ingested : ~DeclaresRoot(line)) =>
          db.workspaceRoot = Undefined
    /\ (Failed /\ IsVertex(FailingLine, "metaData")) =>
          /\ Truthy(db.workspaceRoot)
          /\ "projectRoot" \in DOMAIN FailingLine
          /\ FailingLine.projectRoot # db.workspaceRoot

\* load() threw at a metaData line that declares a second, different root,
\* after it ingested two lines that declare the first.
C10_Witness ==
    /\ Failed
    /\ DeclaresRoot(FailingLine)
    /\ FailingLine.projectRoot # db.workspaceRoot
    /\ Cardinality({line \in Ingested : DeclaresRoot(line)}) = 2


----------------------------------------------------------------------------
(* The items of reference results.                                         *)

\* The items of a vertex of the store.
ItemsOf(d, id) ==
    IF Has(d.out.item, id)
    THEN {d.out.item[id][i] : i \in 1..Len(d.out.item[id])} ELSE {}

\* The reference results that a set of reference results holds, directly or
\* through nested ones (the least fixed point, so cyclic nesting is no
\* obstacle).
RECURSIVE NestedResults(_, _)
NestedResults(d, ids) ==
    LET more == {t.result.id : t \in
                    {u \in UNION {ItemsOf(d, id) : id \in ids} :
                        /\ u.type = "referenceResults"
                        /\ Field(u.result, "label") = "referenceResult"}}
    IN  IF more \subseteq ids THEN ids ELSE NestedResults(d, ids \cup more)

\* The ranges that the items of the given reference results attach under
\* one of the tags.
TaggedRanges(d, ids, tags) ==
    {t.range : t \in {u \in UNION {ItemsOf(d, id) : id \in ids} :
                         u.type \in tags}}

\* The reference result that a picked range resolves to, if any.
ResolvedResults(d, picked) ==
    {resultPath.result[1].value.id : resultPath \in
        {q \in {getResultPath(d, r.id, d.out.references) : r \in picked} :
            q.result # None /\ Field(q.result[1].value, "label") = "referenceResult"}}

\* A references query returned locations from a store whose tagged items
\* are ranges of documents.
ReferencesReturned ==
    /\ result.op = "references"
    /\ result.value.kind = "locations"
    /\ \A id \in DOMAIN db.out.item : \A t \in ItemsOf(db, id) :
          t.type \in ItemTags => Locatable(db, t.range)

\* C11: in a references query, the reference results resolved from the
\* picked ranges, and the reference results nested in them at any depth,
\* contribute the location of every item tagged references, and of every
\* item tagged declarations or definitions when includeDeclaration is true;
\* with includeDeclaration false, every returned location is that of a range
\* that some item attaches as a reference (or untagged), so a range attached
\* only through declarations or definitions items is not returned.
C11_DeclarationsFollowContext ==
    ReferencesReturned =>
        LET resolved == NestedResults(db, ResolvedResults(db, Picked))
            tags == IF result.context.includeDeclaration
                    THEN ItemTags ELSE {"references"}
            every == DOMAIN db.out.item
        IN  /\ {LocationOf(db, r) : r \in TaggedRanges(db, resolved, tags)}
                  \subseteq ReturnedLocations
            /\ ~result.context.includeDeclaration =>
                  ReturnedLocations \subseteq
                      {LocationOf(db, r) :
                          r \in TaggedRanges(db, every, {"references"})
                                \cup {t \in UNION {ItemsOf(db, id) : id \in every} :
                                        t.type = "vertex" /\ Locatable(db, t)}}

\* A references query with includeDeclaration false resolved a reference
\* result that attaches range 3 as a definition or declaration only and holds
\* a nested reference result attaching range 4 as a reference: the query
\* returned the location of range 4 and not that of range 3.
C11_Witness ==
    /\ result.op = "references"
    /\ result.value.kind = "locations"
    /\ ~result.context.includeDeclaration
    /\ \E rr \in ResolvedResults(db, Picked) :
          /\ TaggedRanges(db, {rr}, {"declarations", "definitions"}) # {}
          /\ TaggedRanges(db, {rr}, {"references"}) = {}
          /\ \E r \in TaggedRanges(db, {rr}, {"declarations", "definitions"}) :
                LocationOf(db, r) \notin ReturnedLocations
          /\ \E r \in TaggedRanges(db, NestedResults(db, {rr}) \ {rr},
                                   {"references"}) :
                LocationOf(db, r) \in ReturnedLocations

----------------------------------------------------------------------------
(* The order of the loads.                                                 *)

\* Pairs of dumps with disjoint vertex ids that declare the same workspace
\* root or none.
DumpPairs == MergedPairs \cup DocumentPairs

\* The last query, made on another store.
QueryOn(d) ==
    CASE result.op = "declarations" -> declarations(d, result.uri, result.position)
      [] result.op = "definitions" -> definitions(d, result.uri, result.position)
      [] result.op = "references" ->
            references(d, result.uri, result.position, result.context)
      [] result.op = "allDefinitions" -> allDefinitions(d, result.uri)

LocationSet(value) == {value.locations[i] : i \in 1..Len(value.locations)}

\* Two query results hold the same set of locations.
SameAnswer(v, w) ==
    /\ v.kind = w.kind
    /\ v.kind = "locations" => LocationSet(v) = LocationSet(w)

\* The store that holds the two dumps of the file, loaded in the other order.
OtherOrder(pair) ==
    load(JsonDatabase,
         IF file = pair[1] \o pair[2] THEN pair[2] \o pair[1]
         ELSE pair[1] \o pair[2])

\* C12: when the store holds two dumps with disjoint vertex ids and the same
\* workspace root, every query returns the same set of locations as it does
\* on the store that loaded the two dumps in the other order, and both loads
\* succeed.
C12_LoadOrderIrrelevant ==
    result.op # "none" =>
        \A pair \in DumpPairs :
            file \in {pair[1] \o pair[2], pair[2] \o pair[1]} =>
                /\ status = "ok"
                /\ ~OtherOrder(pair).threw
                /\ SameAnswer(result.value, QueryOn(OtherOrder(pair).d))

\* A query on a store of two dumps returned two or more locations, in an
\* order other than the one the store of the other load order returns them
\* in.
C12_Witness ==
    /\ result.op # "none"
    /\ result.value.kind = "locations"
    /\ Len(result.value.locations) >= 2
    /\ \E pair \in DumpPairs :
          /\ file = pair[1] \o pair[2]
          /\ result.value # QueryOn(OtherOrder(pair).d)

----------------------------------------------------------------------------
(* The most specific moniker.                                              *)

\* The chain of vertices from a vertex along the next edges, up to and
\* including the first one that has an entry in edges; at most fuel steps.
RECURSIVE ChainFrom(_, _, _, _)
ChainFrom(d, v, edges, fuel) ==
    IF Has(edges, v) \/ ~Has(d.out.next, v) \/ fuel = 0 THEN <<v>>
    ELSE <<v>> \o ChainFrom(d, d.out.next[v].id, edges, fuel - 1)

\* The moniker attached to a vertex by the store's moniker map, if any.
AttachedMoniker(d, v) ==
    IF Has(d.out.moniker, v) THEN Some(d.out.moniker[v]) ELSE None

\* The selection as the specification words it, for the chain of a vertex:
\* the moniker of the terminal (result-bearing) vertex if it has one, else
\* that of the trail vertex closest to the terminal that has one, else none.
ClosestMoniker(d, v, edges) ==
    LET chain == ChainFrom(d, v, edges, Cardinality(DOMAIN d.vertices.all))
        last == chain[Len(chain)]
        trail == IF Has(edges, last) THEN SubSeq(chain, 1, Len(chain) - 1)
                 ELSE chain
        S == {j \in 1..Len(trail) : Has(d.out.moniker, trail[j])}
    IN  IF Has(edges, last) /\ Has(d.out.moniker, last)
        THEN AttachedMoniker(d, last)
        ELSE IF S = {} THEN None
        ELSE AttachedMoniker(d, trail[CHOOSE j \in S : \A k \in S : k <= j])

RelationsResolved == {db.out.references, db.out.definition, db.out.declaration}

\* C13: for the result path of any vertex of the store whose next chain
\* ends, the most specific moniker is the moniker of the result-bearing
\* vertex when it has one, otherwise the moniker of the trail vertex closest
\* to the end of the trail that has one, and none only when no vertex of the
\* path has a moniker.
C13_MostSpecificMonikerSelected ==
    \A v \in DOMAIN db.vertices.all : \A edges \in RelationsResolved :
        LET resultPath == getResultPath(db, v, edges)
        IN  ~resultPath.loops =>
                /\ getMostSpecificMoniker(resultPath) = ClosestMoniker(db, v, edges)
                /\ getMostSpecificMoniker(resultPath) = None <=>
                      \A i \in 1..Len(ChainFrom(db, v, edges,
                                               Cardinality(DOMAIN db.vertices.all))) :
                          ~Has(db.out.moniker,
                               ChainFrom(db, v, edges,
                                         Cardinality(DOMAIN db.vertices.all))[i])

\* A references query resolved a range whose trail has two vertices with
\* different monikers and whose result-bearing vertex has none: the moniker
\* selected is that of the second trail vertex, next to the bearer.
C13_Witness ==
    /\ result.op = "references"
    /\ result.value.kind = "locations"
    /\ \E r \in Picked :
          LET resultPath == getResultPath(db, r.id, db.out.references)
          IN  /\ resultPath.result # None
              /\ resultPath.result[1].moniker = None
              /\ Len(resultPath.path) = 2
              /\ resultPath.path[1].moniker # None
              /\ resultPath.path[2].moniker # None
              /\ resultPath.path[1].moniker # resultPath.path[2].moniker
              /\ getMostSpecificMoniker(resultPath) = resultPath.path[2].moniker

----------------------------------------------------------------------------
(* Termination of the queries.                                             *)

\* The last query came to an end: it returned, or threw on a value it could
\* not read; it neither ran forever nor exhausted the call stack.
QueryEnded == result.value.kind \notin {"hang", "RangeError"}

\* C14: on a store whose next edges form no cycle, every definitions,
\* declarations and references query comes to an end: the expansion of
\* monikers, the following of reference links and the recursion into nested
\* reference results are all bounded.
C14_QueriesTerminate ==
    (IsPositionQuery /\ AcyclicNext(db)) => QueryEnded

----------------------------------------------------------------------------
(* The document-level early exit.                                          *)

\* A document instance that contains no range.
HasNoRange(document) == RangesOf(db, document) = {}

\* A document instance that contains nothing at all.
ContainsNothing(document) ==
    \A line \in Ingested :
        (line.type = "edge" /\ Field(line, "label") = "contains")
            => line.outV # document.id

\* The early exit of a position query, for a given reading of "empty": if
\* some instance of the URI is empty the query returns undefined; otherwise
\* an instance without a range around the position contributes no range,
\* and every instance with a range around the position contributes one.
EarlyExit(Empty(_)) ==
    (IsPositionQuery /\ Instances(db, result.uri) # << >>) =>
        LET instances == Instances(db, result.uri)
        IN  IF \E i \in 1..Len(instances) : Empty(instances[i])
            THEN result.value.kind = "undefined"
            ELSE \A i \in 1..Len(instances) :
                    LET around == RangesAround(db, instances[i], result.position)
                    IN  IF around = {}
                        THEN Picked \cap RangesOf(db, instances[i]) = {}
                        ELSE /\ Picked \cap around # {}
                             /\ result.value.kind # "undefined"

\* C15 as written: the whole query returns undefined when some instance of
\* the URI contains no range at all.
C15_ExitWhenAnInstanceHasNoRange == EarlyExit(HasNoRange)

\* C15, amended: the whole query returns undefined when some instance of the
\* URI contains nothing at all (no contains edge); an instance that contains
\* only vertices that are no ranges contributes nothing and the other
\* instances still contribute.
C15_ExitWhenAnInstanceContainsNothing == EarlyExit(ContainsNothing)

\* A position query returned undefined on a URI with two instances, one that
\* contains nothing and one with a range around the queried position.
C15_Witness ==
    /\ IsPositionQuery
    /\ result.value.kind = "undefined"
    /\ Len(Instances(db, result.uri)) = 2
    /\ \E i, j \in 1..2 :
          /\ ContainsNothing(Instances(db, result.uri)[i])
          /\ RangesAround(db, Instances(db, result.uri)[j], result.position) # {}

=============================================================================
